---- MODULE Spec2Model ----
(***************************************************************************)
(* Air cargo planning problem (my_air_cargo_problems.py): grounding of the *)
(* Load / Unload / Fly schemas, the T/F state codec, the transition model  *)
(* (actions, result), the goal test and the heuristics with their caches.  *)
(***************************************************************************)
EXTENDS Integers, Sequences, FiniteSets, TLC

VARIABLES
    cargos,            \* self.cargos
    planes,            \* self.planes
    airports,          \* self.airports
    state_map,         \* self.state_map: the vocabulary, a list of fluents
    initial_state_TF,  \* self.initial_state_TF
    goal,              \* self.goal
    actions_list,      \* self.actions_list
    state,             \* the state string held by the caller (search node)
    ret,               \* what the last call returned or raised
    plan_pos,          \* how much of the P1 plan the applied actions spell
    cache_ip,          \* lru_cache of h_ignore_preconditions, LRU first
    cache_pg,          \* lru_cache of h_pg_levelsum, LRU first
    pg_calls,          \* times PlanningGraph was constructed and summed
    pg_queries,        \* times h_pg_levelsum was called
    queried,           \* each state h_pg_levelsum was asked about, with the
                       \* value its first query returned
    recent_ip,         \* the states last asked of h_ignore_preconditions,
                       \* the latest last, one more than the cache can hold
    recent_pg,         \* the same for h_pg_levelsum
    init_args,         \* the arguments the problem was constructed from
    hname,             \* the heuristic the search was started with
    depth              \* actions applied on the path from the initial state

scenario_vars == <<cargos, planes, airports, state_map, initial_state_TF, goal,
                   actions_list>>
cache_vars == <<cache_ip, cache_pg, pg_calls, pg_queries, queried, recent_ip,
               recent_pg>>
caller_vars == <<init_args, hname, depth>>
vars == <<scenario_vars, state, ret, plan_pos, cache_vars, caller_vars>>

----------------------------------------------------------------------------
(* Bounds of the model *)

\* capacity of each heuristic cache in the model; stands for maxsize=8192
MaxCache == 2
\* calls of h_pg_levelsum in one run of SpecCache
MaxQueries == 4
\* longest cargo list and longest plane list handed to the grounder
MaxObjects == 2
\* longest airport list handed to the grounder
MaxAirports == 3
\* longest positive list and longest negative list handed to the constructor
MaxFluents == 2
\* calls of h_pg_levelsum in one run of SpecFacade
MaxFacadeQueries == 2
\* longest path of applied actions followed in SpecPlan
MaxDepth == 6

----------------------------------------------------------------------------
(* Expressions (aimacode.utils.expr) and lists *)

Range(s) == {s[i] : i \in 1..Len(s)}

RECURSIVE Flatten(_)
Flatten(ss) == IF ss = <<>> THEN <<>> ELSE Head(ss) \o Flatten(Tail(ss))

\* expr('At(x, y)'): operator symbol and argument tuple; blanks do not matter
Expr(op, args) == [op |-> op, args |-> args]
At(x, y) == Expr("At", <<x, y>>)
In(c, p) == Expr("In", <<c, p>>)

\* FluentState(pos_list, neg_list)
FluentState(pos, neg) == [pos |-> pos, neg |-> neg]

\* Action(action, precond, effect)
Action(name, args, precond, effect) ==
    [name |-> name, args |-> args,
     precond_pos |-> precond[1], precond_neg |-> precond[2],
     effect_add |-> effect[1], effect_rem |-> effect[2]]

\* '{}{!s}'.format(name, args): the text "Name(a, b, c)", one per (name, args)
FormatNameArgs(name, args) == <<name, args>>

----------------------------------------------------------------------------
(* State codec (lp_utils) *)

encode_state_neg(fs, fluent_map) ==
    LET neg == Range(fs.neg)
    IN  [i \in 1..Len(fluent_map) |-> IF fluent_map[i] \in neg THEN "T" ELSE "F"]

encode_state(fs, fluent_map) ==
    LET pos == Range(fs.pos)
    IN  [i \in 1..Len(fluent_map) |-> IF fluent_map[i] \in pos THEN "T" ELSE "F"]

\* positions of s holding 'T' (want = TRUE) or another character, ascending
Positions(s, want) ==
    SelectSeq([i \in 1..Len(s) |-> i], LAMBDA i : (s[i] = "T") = want)

decode_state(s, fluent_map) ==
    LET t == Positions(s, TRUE)
        f == Positions(s, FALSE)
    IN  FluentState([k \in 1..Len(t) |-> fluent_map[t[k]]],
                    [k \in 1..Len(f) |-> fluent_map[f[k]]])

----------------------------------------------------------------------------
(* Fact store (aimacode.logic.PropKB) and the positive sentence *)

\* associate('&', fluents): TRUE for none, the fluent itself for one
associate(fluents) ==
    IF Len(fluents) = 0 THEN Expr("TRUE", <<>>)
    ELSE IF Len(fluents) = 1 THEN fluents[1]
    ELSE Expr("&", fluents)

pos_sentence(fs) == associate(fs.pos)

\* conjuncts(sentence): the clauses PropKB.tell adds to kb.clauses
conjuncts(sentence) ==
    IF sentence.op = "&" THEN sentence.args ELSE <<sentence>>

----------------------------------------------------------------------------
(* Grounding *)

load_actions ==
    Flatten([i \in 1..Len(airports) |->
      Flatten([j \in 1..Len(planes) |->
        [k \in 1..Len(cargos) |->
          Action("Load", <<cargos[k], planes[j], airports[i]>>,
                 << <<At(planes[j], airports[i]), At(cargos[k], airports[i])>>, <<>> >>,
                 << <<In(cargos[k], planes[j])>>, <<At(cargos[k], airports[i])>> >>)]])])

\* unload_actions that asks for the cargo at the airport instead of in the plane
unload_actions_at_cargo ==
    Flatten([i \in 1..Len(airports) |->
      Flatten([j \in 1..Len(planes) |->
        [k \in 1..Len(cargos) |->
          Action("Unload", <<cargos[k], planes[j], airports[i]>>,
                 << <<At(planes[j], airports[i]), At(cargos[k], airports[i])>>, <<>> >>,
                 << <<At(cargos[k], airports[i])>>, <<In(cargos[k], planes[j])>> >>)]])])

unload_actions ==
    Flatten([i \in 1..Len(airports) |->
      Flatten([j \in 1..Len(planes) |->
        [k \in 1..Len(cargos) |->
          Action("Unload", <<cargos[k], planes[j], airports[i]>>,
                 << <<At(planes[j], airports[i]), In(cargos[k], planes[j])>>, <<>> >>,
                 << <<At(cargos[k], airports[i])>>, <<In(cargos[k], planes[j])>> >>)]])])

\* fly_actions that requires the plane at the destination
fly_actions_precond_to ==
    Flatten([f \in 1..Len(airports) |->
      Flatten([t \in 1..Len(airports) |->
        IF airports[f] # airports[t]
        THEN [k \in 1..Len(planes) |->
               Action("Fly", <<planes[k], airports[f], airports[t]>>,
                      << <<At(planes[k], airports[t])>>, <<>> >>,
                      << <<At(planes[k], airports[t])>>, <<At(planes[k], airports[f])>> >>)]
        ELSE <<>>])])

\* fly_actions without the test fr != to
fly_actions_same_airport ==
    Flatten([f \in 1..Len(airports) |->
      Flatten([t \in 1..Len(airports) |->
        [k \in 1..Len(planes) |->
           Action("Fly", <<planes[k], airports[f], airports[t]>>,
                  << <<At(planes[k], airports[f])>>, <<>> >>,
                  << <<At(planes[k], airports[t])>>, <<At(planes[k], airports[f])>> >>)]])])

fly_actions ==
    Flatten([f \in 1..Len(airports) |->
      Flatten([t \in 1..Len(airports) |->
        IF airports[f] # airports[t]
        THEN [k \in 1..Len(planes) |->
               Action("Fly", <<planes[k], airports[f], airports[t]>>,
                      << <<At(planes[k], airports[f])>>, <<>> >>,
                      << <<At(planes[k], airports[t])>>, <<At(planes[k], airports[f])>> >>)]
        ELSE <<>>])])

get_actions == load_actions \o unload_actions \o fly_actions

----------------------------------------------------------------------------
(* Transition model *)

\* permissible that stops after the first positive precondition
permissible_first_only(action, decoded) ==
    \/ Len(action.precond_pos) = 0
    \/ action.precond_pos[1] \in Range(decoded.pos)

\* permissible(action, state), given decoded = decode_state(state, state_map)
permissible(action, decoded) ==
    /\ \A i \in 1..Len(action.precond_pos) :
          action.precond_pos[i] \in Range(decoded.pos)
    /\ \A i \in 1..Len(action.precond_neg) :
          action.precond_neg[i] \in Range(decoded.neg)

actions(s) ==
    LET decoded == decode_state(s, state_map)
    IN  SelectSeq(actions_list, LAMBDA a : permissible(a, decoded))

\* text of the exception raised for an action that is not allowed
\* the exception text without the list of allowed actions
WrongAction_attempt_only(s, action) ==
    [action |-> FormatNameArgs(action.name, action.args), allowed |-> <<>>]

WrongAction(s, action) ==
    LET allowed == actions(s)
    IN  [action |-> FormatNameArgs(action.name, action.args),
         allowed |-> [i \in 1..Len(allowed) |->
                        <<allowed[i].name, allowed[i].args,
                          allowed[i].name = action.name,
                          allowed[i].args = action.args,
                          allowed[i] = action>>]]

\* result that applies the effects without looking at actions(state)
result_unchecked(s, action) ==
    LET decoded_state == decode_state(s, state_map)
        new_state ==
            FluentState(
                SelectSeq(decoded_state.pos,
                          LAMBDA f : f \notin Range(action.effect_rem))
                    \o action.effect_add,
                SelectSeq(decoded_state.neg,
                          LAMBDA f : f \notin Range(action.effect_add))
                    \o action.effect_rem)
    IN  [raised |-> FALSE, val |-> encode_state(new_state, state_map)]

\* result that encodes the successor against its own positive list
result_encode_pos_only(s, action) ==
    LET decoded_state == decode_state(s, state_map)
        new_state ==
            FluentState(
                SelectSeq(decoded_state.pos,
                          LAMBDA f : f \notin Range(action.effect_rem))
                    \o action.effect_add,
                SelectSeq(decoded_state.neg,
                          LAMBDA f : f \notin Range(action.effect_add))
                    \o action.effect_rem)
    IN  IF FormatNameArgs(action.name, action.args) \in
              {FormatNameArgs(a.name, a.args) : a \in Range(actions(s))}
        THEN [raised |-> FALSE, val |-> encode_state(new_state, new_state.pos)]
        ELSE [raised |-> TRUE, val |-> WrongAction(s, action)]

\* result that keeps the delete effects in the positive list
result_no_delete(s, action) ==
    LET decoded_state == decode_state(s, state_map)
        new_state ==
            FluentState(
                decoded_state.pos \o action.effect_add,
                SelectSeq(decoded_state.neg,
                          LAMBDA f : f \notin Range(action.effect_add))
                    \o action.effect_rem)
    IN  IF FormatNameArgs(action.name, action.args) \in
              {FormatNameArgs(a.name, a.args) : a \in Range(actions(s))}
        THEN [raised |-> FALSE, val |-> encode_state(new_state, state_map)]
        ELSE [raised |-> TRUE, val |-> WrongAction(s, action)]

result(s, action) ==
    LET available == actions(s)
        available_action_strings ==
            [i \in 1..Len(available) |->
                FormatNameArgs(available[i].name, available[i].args)]
        action_string == FormatNameArgs(action.name, action.args)
        decoded_state == decode_state(s, state_map)
        new_state ==
            FluentState(
                SelectSeq(decoded_state.pos,
                          LAMBDA f : f \notin Range(action.effect_rem))
                    \o action.effect_add,
                SelectSeq(decoded_state.neg,
                          LAMBDA f : f \notin Range(action.effect_add))
                    \o action.effect_rem)
    IN  IF action_string \in Range(available_action_strings)
        THEN [raised |-> FALSE, val |-> encode_state(new_state, state_map)]
        ELSE [raised |-> TRUE, val |-> WrongAction(s, action)]

\* goal_test that is satisfied by one goal clause
goal_test_any(s) ==
    LET kb_clauses == Range(conjuncts(pos_sentence(decode_state(s, state_map))))
    IN  \E i \in 1..Len(goal) : goal[i] \in kb_clauses

goal_test(s) ==
    LET kb_clauses == Range(conjuncts(pos_sentence(decode_state(s, state_map))))
    IN  \A i \in 1..Len(goal) : goal[i] \in kb_clauses

----------------------------------------------------------------------------
(* Heuristics *)

h_1_goal_count == Len(goal)

h_1 == 1

\* literals of the next level of the relaxed planning graph: delete effects
\* are ignored, so a level only grows
NextLevel(lits) ==
    lits \cup UNION {Range(actions_list[i].effect_add) :
                       i \in {j \in 1..Len(actions_list) :
                                Range(actions_list[j].precond_pos) \subseteq lits}}

\* first level at which fluent g appears, counting from level k; the
\* sentinel for a fluent that never appears is one more than the vocabulary
RECURSIVE FirstLevel(_, _, _)
FirstLevel(lits, g, k) ==
    IF g \in lits THEN k
    ELSE LET next == NextLevel(lits)
         IN  IF next = lits THEN Len(state_map) + 1
             ELSE FirstLevel(next, g, k + 1)

RECURSIVE SumSeq(_)
SumSeq(ns) == IF ns = <<>> THEN 0 ELSE Head(ns) + SumSeq(Tail(ns))

\* PlanningGraph(problem, state).h_levelsum()
h_levelsum(s) ==
    LET lits == Range(decode_state(s, state_map).pos)
    IN  SumSeq([i \in 1..Len(goal) |-> FirstLevel(lits, goal[i], 0)])

\* body of h_pg_levelsum, run on a cache miss
h_pg_levelsum(s) == h_levelsum(s)

\* h_ignore_preconditions that counts the goal fluents that hold
h_ignore_preconditions_positive(s) ==
    LET positive_states == decode_state(s, state_map).pos
        positive_state_strings ==
            {FormatNameArgs(positive_states[i].op, positive_states[i].args) :
                i \in 1..Len(positive_states)}
        goal_state_strings ==
            {FormatNameArgs(goal[i].op, goal[i].args) : i \in 1..Len(goal)}
    IN  Cardinality(positive_state_strings \cap goal_state_strings)

\* h_ignore_preconditions without the intersection with the goal
h_ignore_preconditions_all_negative(s) ==
    LET negative_states == decode_state(s, state_map).neg
    IN  Cardinality({FormatNameArgs(negative_states[i].op, negative_states[i].args) :
                        i \in 1..Len(negative_states)})

\* h_ignore_preconditions that counts every unmet goal fluent twice
h_ignore_preconditions_twice(s) ==
    2 * Cardinality(Range(decode_state(s, state_map).neg) \cap Range(goal))

\* body of h_ignore_preconditions, run on a cache miss
h_ignore_preconditions(s) ==
    LET negative_states == decode_state(s, state_map).neg
        negative_state_strings ==
            {FormatNameArgs(negative_states[i].op, negative_states[i].args) :
                i \in 1..Len(negative_states)}
        goal_state_strings ==
            {FormatNameArgs(goal[i].op, goal[i].args) : i \in 1..Len(goal)}
    IN  Cardinality(negative_state_strings \cap goal_state_strings)

\* the cache key of a search node: Node hashes and compares by its state
cache_key(s) == s

----------------------------------------------------------------------------
(* functools.lru_cache(maxsize): entries [key, val], least recently used first *)

\* a cache whose lookup never finds the key
cache_hit_never(cache, key) == FALSE

cache_hit(cache, key) == \E i \in 1..Len(cache) : cache[i].key = key

cache_value(cache, key) ==
    cache[CHOOSE i \in 1..Len(cache) : cache[i].key = key].val

\* a hit that leaves the order of the entries alone (first in, first out)
cache_touch_none(cache, key) == cache

\* a hit moves the entry to the most recently used end
cache_touch(cache, key) ==
    SelectSeq(cache, LAMBDA e : e.key # key)
        \o SelectSeq(cache, LAMBDA e : e.key = key)

\* a miss stores the value and, past capacity, drops the oldest entry
cache_store(cache, key, val) ==
    LET c == Append(cache, [key |-> key, val |-> val])
    IN  IF Len(c) > MaxCache THEN Tail(c) ELSE c

\* the record of the last states asked of a cached heuristic after key is
\* asked: key becomes the latest, and one state more than the cache can
\* hold is remembered
Recent(recent, key) ==
    LET r == Append(SelectSeq(recent, LAMBDA k : k # key), key)
    IN  IF Len(r) > MaxCache + 1 THEN Tail(r) ELSE r

----------------------------------------------------------------------------
(* Scenarios *)

air_cargo_p1 ==
    [cargos |-> <<"C1", "C2">>,
     planes |-> <<"P1", "P2">>,
     airports |-> <<"JFK", "SFO">>,
     initial |-> FluentState(
        <<At("C1", "SFO"), At("C2", "JFK"), At("P1", "SFO"), At("P2", "JFK")>>,
        <<At("C1", "JFK"), At("C2", "SFO"), At("P1", "JFK"), At("P2", "SFO"),
          In("C1", "P1"), In("C1", "P2"), In("C2", "P1"), In("C2", "P2")>>),
     goal |-> <<At("C1", "JFK"), At("C2", "SFO")>>]

\* a one-cargo, one-plane instance of the constructor
small_cargo ==
    [cargos |-> <<"C1">>,
     planes |-> <<"P1">>,
     airports |-> <<"JFK", "SFO">>,
     initial |-> FluentState(
        <<At("C1", "SFO"), At("P1", "SFO")>>,
        <<At("C1", "JFK"), At("P1", "JFK"), In("C1", "P1")>>),
     goal |-> <<At("C1", "JFK")>>]

\* the plan of scenario P1, as (name, args) of grounded actions
P1Plan ==
    << <<"Load", <<"C1", "P1", "SFO">> >>,
       <<"Fly", <<"P1", "SFO", "JFK">> >>,
       <<"Unload", <<"C1", "P1", "JFK">> >>,
       <<"Load", <<"C2", "P2", "JFK">> >>,
       <<"Fly", <<"P2", "JFK", "SFO">> >>,
       <<"Unload", <<"C2", "P2", "SFO">> >> >>

\* object names the grounder is tried on in SpecGround
CargoNames == {"C1", "C2"}
PlaneNames == {"P1", "P2"}
AirportNames == {"JFK", "SFO", "ATL"}

SeqsUpTo(S, n) == UNION {[1..m -> S] : m \in 0..n}

----------------------------------------------------------------------------
(* Initial states *)

NoCall == [op |-> "none"]

\* AirCargoProblem.__init__ on the arguments of scenario sc
\* self.state_map = initial.pos + initial.neg
initial_state_map_neg_first(initial) == initial.neg \o initial.pos

initial_state_map(initial) == initial.pos \o initial.neg

Constructed(sc) ==
    /\ state_map = initial_state_map(sc.initial)
    /\ initial_state_TF = encode_state(sc.initial, state_map)
    /\ goal = sc.goal
    /\ cargos = sc.cargos
    /\ planes = sc.planes
    /\ airports = sc.airports
    /\ actions_list = get_actions
    /\ init_args = sc

EmptyCaches ==
    /\ cache_ip = <<>>
    /\ cache_pg = <<>>
    /\ pg_calls = 0
    /\ pg_queries = 0
    /\ queried = {}
    /\ recent_ip = <<>>
    /\ recent_pg = <<>>

\* a constructed problem, the caller holding its initial state
Init ==
    /\ \E sc \in {air_cargo_p1, small_cargo} :
          /\ Constructed(sc)
          /\ plan_pos = IF sc = air_cargo_p1 THEN 0 ELSE -1
    /\ state = initial_state_TF
    /\ ret = NoCall
    /\ hname = "h_1"
    /\ depth = 0
    /\ EmptyCaches

\* scenario P1, the caller holding any T/F string over its vocabulary
InitPure ==
    /\ Constructed(air_cargo_p1)
    /\ state \in [1..Len(state_map) -> {"T", "F"}]
    /\ plan_pos = -1
    /\ ret = NoCall
    /\ hname = "h_ignore_preconditions"
    /\ depth = 0
    /\ EmptyCaches

\* the small scenario, for the heuristic caches
InitCache ==
    /\ Constructed(small_cargo)
    /\ state = initial_state_TF
    /\ plan_pos = -1
    /\ ret = NoCall
    /\ hname = "h_pg_levelsum"
    /\ depth = 0
    /\ EmptyCaches

\* object lists before grounding
InitGround ==
    /\ cargos \in SeqsUpTo(CargoNames, MaxObjects)
    /\ planes \in SeqsUpTo(PlaneNames, MaxObjects)
    /\ airports \in SeqsUpTo(AirportNames, MaxAirports)
    /\ state_map = <<>>
    /\ initial_state_TF = <<>>
    /\ goal = <<>>
    /\ actions_list = <<>>
    /\ state = <<>>
    /\ plan_pos = -1
    /\ ret = NoCall
    /\ init_args = [cargos |-> cargos, planes |-> planes, airports |-> airports]
    /\ hname = ""
    /\ depth = 0
    /\ EmptyCaches

\* a search on the small scenario, started with one of the heuristics of
\* run_search.SEARCHES ("" for an uninformed search)
InitSearch ==
    /\ Constructed(small_cargo)
    /\ state = initial_state_TF
    /\ plan_pos = -1
    /\ ret = NoCall
    /\ hname \in {"", "h_1", "h_ignore_preconditions", "h_pg_levelsum"}
    /\ depth = 0
    /\ EmptyCaches

----------------------------------------------------------------------------
(* Calls *)

\* self.actions_list = self.get_actions()
CallGetActions ==
    /\ ret.op = "none"
    /\ actions_list' = get_actions
    /\ ret' = [op |-> "get_actions", val |-> actions_list']
    /\ UNCHANGED <<cargos, planes, airports, state_map, initial_state_TF, goal,
                   state, plan_pos, cache_vars, caller_vars>>

CallActions ==
    /\ ret' = [op |-> "actions", state |-> state, val |-> actions(state)]
    /\ UNCHANGED <<scenario_vars, state, plan_pos, cache_vars, caller_vars>>

\* which prefix of P1Plan the applied actions spell after one more action
PlanPosAfter(action) ==
    IF /\ plan_pos >= 0
       /\ plan_pos < Len(P1Plan)
       /\ P1Plan[plan_pos + 1] = <<action.name, action.args>>
    THEN plan_pos + 1
    ELSE -1

\* problem.result(state, action); the caller moves to the successor, or
\* keeps its state when the call raises
CallResult(action) ==
    LET r == result(state, action)
    IN  /\ ret' = [op |-> "result", state |-> state, action |-> action,
                   raised |-> r.raised, val |-> r.val]
        /\ state' = IF r.raised THEN state ELSE r.val
        /\ plan_pos' = IF r.raised THEN plan_pos ELSE PlanPosAfter(action)
        /\ UNCHANGED <<scenario_vars, cache_vars, caller_vars>>

\* goal_test that pops the clauses off self.goal as it checks them
CallGoalTest_consume_goal ==
    /\ ret' = [op |-> "goal_test", state |-> state, val |-> goal_test(state)]
    /\ goal' = <<>>
    /\ UNCHANGED <<cargos, planes, airports, state_map, initial_state_TF,
                   actions_list, state, plan_pos, cache_vars, caller_vars>>

CallGoalTest ==
    /\ ret' = [op |-> "goal_test", state |-> state, val |-> goal_test(state)]
    /\ UNCHANGED <<scenario_vars, state, plan_pos, cache_vars, caller_vars>>

CallH1 ==
    /\ ret' = [op |-> "h_1", state |-> state, val |-> h_1]
    /\ UNCHANGED <<scenario_vars, state, plan_pos, cache_vars, caller_vars>>

\* @lru_cache h_ignore_preconditions(node), node.state = state
CallHIgnorePreconditions ==
    /\ IF cache_hit(cache_ip, cache_key(state))
       THEN /\ ret' = [op |-> "h_ignore_preconditions", state |-> state,
                       val |-> cache_value(cache_ip, cache_key(state))]
            /\ cache_ip' = cache_touch(cache_ip, cache_key(state))
       ELSE /\ ret' = [op |-> "h_ignore_preconditions", state |-> state,
                       val |-> h_ignore_preconditions(state)]
            /\ cache_ip' = cache_store(cache_ip, cache_key(state),
                                       h_ignore_preconditions(state))
    /\ recent_ip' = Recent(recent_ip, cache_key(state))
    /\ UNCHANGED <<scenario_vars, state, plan_pos, cache_pg, pg_calls,
                   pg_queries, queried, recent_pg, caller_vars>>

\* @lru_cache h_pg_levelsum(node), node.state = state
CallHPgLevelsum ==
    /\ pg_queries < MaxQueries
    /\ pg_queries' = pg_queries + 1
    /\ IF cache_hit(cache_pg, cache_key(state))
       THEN /\ ret' = [op |-> "h_pg_levelsum", state |-> state,
                       val |-> cache_value(cache_pg, cache_key(state))]
            /\ cache_pg' = cache_touch(cache_pg, cache_key(state))
            /\ pg_calls' = pg_calls
       ELSE /\ ret' = [op |-> "h_pg_levelsum", state |-> state,
                       val |-> h_pg_levelsum(state)]
            /\ cache_pg' = cache_store(cache_pg, cache_key(state),
                                       h_pg_levelsum(state))
            /\ pg_calls' = pg_calls + 1
    /\ queried' = IF \E q \in queried : q.state = state
                   THEN queried
                   ELSE queried \cup {[state |-> state, val |-> ret'.val]}
    /\ recent_pg' = Recent(recent_pg, cache_key(state))
    /\ UNCHANGED <<scenario_vars, state, plan_pos, cache_ip, recent_ip,
                   caller_vars>>

----------------------------------------------------------------------------
(* Specifications *)

\* the transition model and the goal test, driven by a search
Next ==
    \/ CallActions
    \/ \E i \in 1..Len(actions_list) : CallResult(actions_list[i])
    \/ CallGoalTest
    \/ CallH1

Spec == Init /\ [][Next]_vars

\* the goal test and h_ignore_preconditions as functions of the state string
NextPure ==
    \/ CallGoalTest
    \/ CallHIgnorePreconditions

SpecPure == InitPure /\ [][NextPure]_vars

\* the grounder on bounded object lists
NextGround == CallGetActions

SpecGround == InitGround /\ [][NextGround]_vars

\* h_pg_levelsum and its cache while the caller moves between states
NextCache ==
    \/ \E i \in 1..Len(actions_list) :
          /\ ~result(state, actions_list[i]).raised
          /\ CallResult(actions_list[i])
    \/ CallHPgLevelsum

SpecCache == InitCache /\ [][NextCache]_vars

\* one search run: the problem answers the search's calls; a search
\* applies the actions that actions(state) gave it, and its heuristic is the
\* one the run was started with
NextSearch ==
    \/ CallActions
    \/ \E i \in 1..Len(actions(state)) : CallResult(actions(state)[i])
    \/ CallGoalTest
    \/ hname = "h_1" /\ CallH1
    \/ hname = "h_ignore_preconditions" /\ CallHIgnorePreconditions
    \/ hname = "h_pg_levelsum" /\ CallHPgLevelsum

SpecSearch == InitSearch /\ [][NextSearch]_vars

\* the codec on its own: scenario P1's vocabulary and any partition of it, its
\* positive list in vocabulary order or reversed, handed to encode_state and
\* the string it returns handed to decode_state
Reverse(s) == [i \in 1..Len(s) |-> s[Len(s) + 1 - i]]

InitCodec ==
    /\ Constructed(air_cargo_p1)
    /\ state = initial_state_TF
    /\ plan_pos = -1
    /\ hname = ""
    /\ depth = 0
    /\ EmptyCaches
    /\ \E P \in SUBSET Range(state_map), rev \in BOOLEAN :
          LET p == SelectSeq(state_map, LAMBDA f : f \in P)
              n == SelectSeq(state_map, LAMBDA f : f \notin P)
          IN  ret = [op |-> "FluentState",
                     val |-> FluentState(IF rev THEN Reverse(p) ELSE p,
                                         IF rev THEN n ELSE Reverse(n))]

CallEncodeState ==
    /\ ret.op = "FluentState"
    /\ ret' = [op |-> "encode_state", fs |-> ret.val,
               val |-> encode_state(ret.val, state_map)]
    /\ UNCHANGED <<scenario_vars, state, plan_pos, cache_vars, caller_vars>>

CallDecodeState ==
    /\ ret.op = "encode_state"
    /\ ret' = [op |-> "decode_state", fs |-> ret.fs, s |-> ret.val,
               val |-> decode_state(ret.val, state_map)]
    /\ UNCHANGED <<scenario_vars, state, plan_pos, cache_vars, caller_vars>>

NextCodec ==
    \/ CallEncodeState
    \/ CallDecodeState

SpecCodec == InitCodec /\ [][NextCodec]_vars

\* construction: the caller holds the arguments of AirCargoProblem(...) and
\* no instance yet; the initial lists are any lists of fluents of the small
\* world, so a fluent may be listed on both sides and the goal may name a
\* fluent that is on neither
SmallFluents ==
    {At("C1", "SFO"), At("C1", "JFK"), At("P1", "SFO"), At("P1", "JFK"),
     In("C1", "P1")}

SmallGoals == {<<At("C1", "JFK")>>, <<At("C1", "JFK"), At("P1", "JFK")>>}

InitConstruct ==
    /\ \E pos \in SeqsUpTo(SmallFluents, MaxFluents),
          neg \in SeqsUpTo(SmallFluents, MaxFluents),
          g \in SmallGoals :
          init_args = [cargos |-> small_cargo.cargos,
                       planes |-> small_cargo.planes,
                       airports |-> small_cargo.airports,
                       initial |-> FluentState(pos, neg),
                       goal |-> g]
    /\ cargos = <<>>
    /\ planes = <<>>
    /\ airports = <<>>
    /\ state_map = <<>>
    /\ initial_state_TF = <<>>
    /\ goal = <<>>
    /\ actions_list = <<>>
    /\ state = <<>>
    /\ plan_pos = -1
    /\ ret = NoCall
    /\ hname = ""
    /\ depth = 0
    /\ EmptyCaches

\* AirCargoProblem(cargos, planes, airports, initial, goal): the body of
\* __init__ has no check and raises nothing; the caller then holds the
\* instance's initial state
CallInit ==
    /\ ret = NoCall
    /\ state_map' = initial_state_map(init_args.initial)
    /\ initial_state_TF' = encode_state(init_args.initial, state_map')
    /\ goal' = init_args.goal
    /\ cargos' = init_args.cargos
    /\ planes' = init_args.planes
    /\ airports' = init_args.airports
    /\ actions_list' = get_actions'
    /\ state' = initial_state_TF'
    /\ ret' = [op |-> "__init__", raised |-> FALSE]
    /\ UNCHANGED <<plan_pos, cache_vars, caller_vars>>

NextConstruct ==
    \/ CallInit
    \/ ret # NoCall /\ CallActions
    \/ ret # NoCall /\ CallGoalTest

SpecConstruct == InitConstruct /\ [][NextConstruct]_vars

\* every query of the instance, in any order: actions, result on any grounded
\* action (enabled or not), goal_test and the heuristic the caller picked
InitFacade ==
    /\ Constructed(small_cargo)
    /\ state = initial_state_TF
    /\ plan_pos = -1
    /\ ret = NoCall
    /\ hname \in {"h_1", "h_ignore_preconditions", "h_pg_levelsum"}
    /\ depth = 0
    /\ EmptyCaches

NextFacade ==
    \/ CallActions
    \/ \E i \in 1..Len(actions_list) : CallResult(actions_list[i])
    \/ CallGoalTest
    \/ hname = "h_1" /\ CallH1
    \/ hname = "h_ignore_preconditions" /\ CallHIgnorePreconditions
    \/ hname = "h_pg_levelsum" /\ pg_queries < MaxFacadeQueries /\ CallHPgLevelsum

SpecFacade == InitFacade /\ [][NextFacade]_vars

\* paths of applicable actions from P1's initial state: the caller applies
\* an action of actions(state), moves to the successor and counts the step
InitPlan ==
    /\ Constructed(air_cargo_p1)
    /\ state = initial_state_TF
    /\ plan_pos = 0
    /\ ret = NoCall
    /\ hname = ""
    /\ depth = 0
    /\ EmptyCaches

ApplyAction(action) ==
    LET r == result(state, action)
    IN  /\ depth < MaxDepth
        /\ ~r.raised
        /\ state' = r.val
        /\ depth' = depth + 1
        /\ plan_pos' = PlanPosAfter(action)
        /\ ret' = [op |-> "result", state |-> state, action |-> action,
                   raised |-> FALSE, val |-> r.val]
        /\ UNCHANGED <<scenario_vars, cache_vars, init_args, hname>>

NextPlan ==
    \/ \E i \in 1..Len(actions(state)) : ApplyAction(actions(state)[i])
    \/ CallGoalTest

SpecPlan == InitPlan /\ [][NextPlan]_vars

----------------------------------------------------------------------------
(* Properties *)

Vocabulary == Range(state_map)

\* C1: result(s, a) on a grounded action a returns a successor state when a
\* is in actions(s) and raises when a is not in actions(s).
C1_ApplicabilitySoundness ==
    ret.op = "result" =>
        /\ ret.action \in Range(actions(ret.state)) =>
              /\ ~ret.raised
              /\ ret.val \in [1..Len(state_map) -> {"T", "F"}]
        /\ ret.action \notin Range(actions(ret.state)) => ret.raised

\* a call of result on an action that is not enabled in a state past the
\* initial one was rejected
C1_Witness ==
    /\ ret.op = "result"
    /\ ret.raised
    /\ ret.state # initial_state_TF
    /\ ret.action \notin Range(actions(ret.state))

\* C2: in the initial state and after any sequence of successful result
\* calls, decode(state) is a pair of disjoint lists that together hold every
\* fluent of the vocabulary exactly once.
C2_PartitionInvariant ==
    LET d == decode_state(state, state_map)
        both == d.pos \o d.neg
    IN  /\ Range(d.pos) \cap Range(d.neg) = {}
        /\ Range(both) = Vocabulary
        /\ \A f \in Vocabulary :
              Cardinality({i \in 1..Len(both) : both[i] = f}) = 1

\* a successor state produced by result is held by the caller
C2_Witness ==
    /\ ret.op = "result"
    /\ ~ret.raised
    /\ state = ret.val
    /\ state # initial_state_TF

\* C3: on success the positive set becomes (positive - delete) + add, the
\* negative set becomes (negative - add) + delete, both over the same
\* vocabulary, and every fluent outside add and delete keeps its value.
C3_Effects ==
    (ret.op = "result" /\ ~ret.raised) =>
        LET before == decode_state(ret.state, state_map)
            after == decode_state(ret.val, state_map)
            add == Range(ret.action.effect_add)
            del == Range(ret.action.effect_rem)
        IN  /\ Range(after.pos) =
                  ((Range(before.pos) \ del) \cup add) \cap Vocabulary
            /\ Range(after.neg) =
                  ((Range(before.neg) \ add) \cup del) \cap Vocabulary
            /\ Len(ret.val) = Len(ret.state)
            /\ \A i \in 1..Len(state_map) :
                  state_map[i] \notin add \cup del => ret.val[i] = ret.state[i]

\* a successful Unload: its delete effect held before and its add effect after
C3_Witness ==
    /\ ret.op = "result"
    /\ ~ret.raised
    /\ ret.action.name = "Unload"
    /\ ret.action.effect_rem[1] \in Range(decode_state(ret.state, state_map).pos)
    /\ ret.action.effect_add[1] \in Range(decode_state(ret.val, state_map).pos)

\* C4: actions(s) is the grounded action list, in its order, restricted to
\* the actions whose positive preconditions are all in decode(s).positive and
\* whose negative preconditions are all in decode(s).negative.
C4_EnabledActions ==
    ret.op = "actions" =>
        LET d == decode_state(ret.state, state_map)
        IN  ret.val =
                SelectSeq(actions_list,
                          LAMBDA a : /\ Range(a.precond_pos) \subseteq Range(d.pos)
                                     /\ Range(a.precond_neg) \subseteq Range(d.neg))

\* actions() answered with some but not all grounded actions, among them an
\* Unload, in a state past the initial one
C4_Witness ==
    /\ ret.op = "actions"
    /\ ret.state # initial_state_TF
    /\ Len(ret.val) > 0
    /\ Len(ret.val) < Len(actions_list)
    /\ \E i \in 1..Len(ret.val) : ret.val[i].name = "Unload"

\* C5: in scenario P1 every action of the plan is enabled when its turn
\* comes, and goal_test holds after the sixth action and after no shorter
\* prefix of the plan (the empty one included).
C5_P1Plan ==
    plan_pos >= 0 =>
        /\ plan_pos < Len(P1Plan) =>
              \E i \in 1..Len(actions(state)) :
                 FormatNameArgs(actions(state)[i].name, actions(state)[i].args)
                    = P1Plan[plan_pos + 1]
        /\ goal_test(state) <=> plan_pos = Len(P1Plan)
        /\ ret.op = "goal_test" => (ret.val <=> plan_pos = Len(P1Plan))

\* the six actions were applied in order and goal_test then answered true
C5_Witness ==
    /\ plan_pos = Len(P1Plan)
    /\ ret.op = "goal_test"
    /\ ret.val

\* C6: goal_test(s) is true exactly when every goal fluent is in
\* decode(s).positive, for every T/F string s over the vocabulary.
C6_GoalTest ==
    ret.op = "goal_test" =>
        (ret.val <=>
            Range(goal) \subseteq Range(decode_state(ret.state, state_map).pos))

\* goal_test answered true on a string that also holds other fluents
C6_Witness ==
    /\ ret.op = "goal_test"
    /\ ret.val
    /\ Len(decode_state(ret.state, state_map).pos) > Len(goal)

NoDuplicates(s) == \A i, j \in 1..Len(s) : s[i] = s[j] => i = j

CountNamed(as, name) == Cardinality({i \in 1..Len(as) : as[i].name = name})

\* C7: for C cargos, P planes and A >= 2 airports with pairwise distinct
\* names, get_actions() yields C*P*A Load, C*P*A Unload and P*A*(A-1) Fly
\* actions, 2*C*P*A + P*A*(A-1) in all.
C7_GroundingCardinality ==
    (/\ ret.op = "get_actions"
     /\ Len(airports) >= 2
     /\ NoDuplicates(cargos) /\ NoDuplicates(planes) /\ NoDuplicates(airports)) =>
        LET C == Len(cargos)
            P == Len(planes)
            A == Len(airports)
        IN  /\ Len(actions_list) = 2 * C * P * A + P * A * (A - 1)
            /\ CountNamed(actions_list, "Load") = C * P * A
            /\ CountNamed(actions_list, "Unload") = C * P * A
            /\ CountNamed(actions_list, "Fly") = P * A * (A - 1)

\* the grounder ran on two cargos, two planes and at least two airports
C7_Witness ==
    /\ ret.op = "get_actions"
    /\ Len(cargos) = 2 /\ Len(planes) = 2 /\ Len(airports) >= 2
    /\ NoDuplicates(cargos) /\ NoDuplicates(planes) /\ NoDuplicates(airports)
    /\ Len(actions_list) = 8 * Len(airports) + 2 * Len(airports) * (Len(airports) - 1)

\* C8: h_ignore_preconditions(s) is the number of fluents that are in
\* decode(s).negative and among the goal fluents, which is the number of
\* goal fluents that do not hold in s.
C8_IgnorePreconditions ==
    ret.op = "h_ignore_preconditions" =>
        LET d == decode_state(ret.state, state_map)
        IN  /\ ret.val = Cardinality(Range(d.neg) \cap Range(goal))
            /\ ret.val = Cardinality({g \in Range(goal) : g \notin Range(d.pos)})

\* the heuristic was asked about a string in which one of the two goal
\* fluents holds
C8_Witness ==
    /\ ret.op = "h_ignore_preconditions"
    /\ ret.val = 1
    /\ Cardinality(Range(goal) \cap Range(decode_state(ret.state, state_map).pos)) = 1

\* the grounded action called name(args)
Grounded(na) ==
    CHOOSE a \in Range(actions_list) : FormatNameArgs(a.name, a.args) = na

\* the state reached from s by result() along a plan of (name, args)
RECURSIVE Replay(_, _)
Replay(s, plan) ==
    IF plan = <<>> THEN s
    ELSE Replay(result(s, Grounded(Head(plan))).val, Tail(plan))

\* C9: in scenario P1 h_ignore_preconditions is 2 on the initial state and 0
\* on the state the six-action plan leads to.
C9_P1Heuristic ==
    ret.op = "h_ignore_preconditions" =>
        /\ ret.state = initial_state_TF => ret.val = 2
        /\ ret.state = Replay(initial_state_TF, P1Plan) => ret.val = 0

\* the heuristic was asked about the state at the end of the plan
C9_Witness ==
    /\ ret.op = "h_ignore_preconditions"
    /\ ret.state = Replay(initial_state_TF, P1Plan)
    /\ ret.state # initial_state_TF

\* the cache of h_pg_levelsum holds an entry for state s
CachedPg(s) == \E i \in 1..Len(cache_pg) : cache_pg[i].key = s

\* C10 as stated: the planning graph was built once per distinct state
\* queried, however many queries were made.
C10_CallsEqualDistinctStates ==
    pg_calls = Cardinality(queried)

\* C10, amended: every query returns the value of the first query on that
\* state; a query on a state still in the cache does not build the planning
\* graph; so the number of builds is the number of cache misses, which is the
\* number of distinct states queried as long as these fit in the cache (none
\* was evicted) and is never less than it.
C10_CacheDeterminism ==
    /\ [](/\ ret.op = "h_pg_levelsum" =>
                [state |-> ret.state, val |-> ret.val] \in queried
          /\ \A q \in queried : q.val = h_levelsum(q.state)
          /\ pg_calls >= Cardinality(queried)
          /\ pg_calls <= pg_queries
          /\ Cardinality(queried) <= MaxCache => pg_calls = Cardinality(queried))
    /\ [][/\ CachedPg(state) => pg_calls' = pg_calls
          /\ (~CachedPg(state) /\ pg_queries' # pg_queries) =>
                pg_calls' = pg_calls + 1]_vars

\* a repeated query was answered from the cache: more queries than builds
C10_Witness ==
    /\ ret.op = "h_pg_levelsum"
    /\ pg_queries > pg_calls
    /\ Cardinality(queried) = 2
    /\ CachedPg(ret.state)

CacheKeys(cache) == [i \in 1..Len(cache) |-> cache[i].key]

LastOf(s, n) == IF Len(s) <= n THEN s ELSE SubSeq(s, Len(s) - n + 1, Len(s))

\* C11: each heuristic cache is keyed by state (an entry holds the
\* heuristic's value for its key), never holds more than its capacity, and
\* holds exactly the most recently asked states, so that the entry dropped
\* at capacity is the least recently used one.
C11_LruCache ==
    /\ Len(cache_ip) <= MaxCache
    /\ Len(cache_pg) <= MaxCache
    /\ CacheKeys(cache_ip) = LastOf(recent_ip, MaxCache)
    /\ CacheKeys(cache_pg) = LastOf(recent_pg, MaxCache)
    /\ \A i \in 1..Len(cache_ip) :
          /\ cache_ip[i].key \in [1..Len(state_map) -> {"T", "F"}]
          /\ cache_ip[i].val = h_ignore_preconditions(cache_ip[i].key)
    /\ \A i \in 1..Len(cache_pg) :
          /\ cache_pg[i].key \in [1..Len(state_map) -> {"T", "F"}]
          /\ cache_pg[i].val = h_levelsum(cache_pg[i].key)

\* the cache of h_ignore_preconditions is full and has dropped a state that
\* was asked earlier than the ones it holds
C11_Witness ==
    /\ ret.op = "h_ignore_preconditions"
    /\ Len(cache_ip) = MaxCache
    /\ Len(recent_ip) = MaxCache + 1
    /\ \A i \in 1..Len(cache_ip) : cache_ip[i].key # recent_ip[1]

\* C12: for a partition (positive, negative) that exactly covers the
\* vocabulary, decoding the encoded partition gives back the same set of
\* positive fluents and the same set of negative fluents.
C12_RoundTrip ==
    (/\ ret.op = "decode_state"
     /\ Range(ret.fs.pos) \cap Range(ret.fs.neg) = {}
     /\ Range(ret.fs.pos) \cup Range(ret.fs.neg) = Vocabulary)
    => /\ Range(ret.val.pos) = Range(ret.fs.pos)
       /\ Range(ret.val.neg) = Range(ret.fs.neg)

\* a decoded partition whose lists come back in another order than given
C12_Witness ==
    /\ ret.op = "decode_state"
    /\ Len(ret.fs.pos) >= 2
    /\ Len(ret.fs.neg) >= 2
    /\ ret.val.pos # ret.fs.pos
    /\ Range(ret.val.pos) = Range(ret.fs.pos)

\* the initial lists share a fluent, or the goal names a fluent that is in
\* neither list
Malformed(sc) ==
    \/ Range(sc.initial.pos) \cap Range(sc.initial.neg) # {}
    \/ ~(Range(sc.goal) \subseteq
            Range(sc.initial.pos) \cup Range(sc.initial.neg))

\* C13: constructing a scenario whose initial lists share a fluent, or whose
\* goal names a fluent outside the vocabulary, fails (the construction
\* raises) and leaves no instance that answers queries.
C13_MalformedRejected ==
    Malformed(init_args) => \/ ret = NoCall
                            \/ ret.op = "__init__" /\ ret.raised

\* C18: the vocabulary is the initial positive list followed by the initial
\* negative list, each in the order the caller gave it, and position i of
\* the initial state is true exactly when vocabulary[i] is an initial
\* positive fluent.
C18_VocabularyOrder ==
    ret # NoCall =>
        LET pos == init_args.initial.pos
            neg == init_args.initial.neg
        IN  /\ Len(state_map) = Len(pos) + Len(neg)
            /\ \A i \in 1..Len(pos) : state_map[i] = pos[i]
            /\ \A j \in 1..Len(neg) : state_map[Len(pos) + j] = neg[j]
            /\ Len(initial_state_TF) = Len(state_map)
            /\ \A i \in 1..Len(state_map) :
                  (initial_state_TF[i] = "T") <=>
                      (\E k \in 1..Len(pos) : pos[k] = state_map[i])

\* a well-formed scenario constructed, both lists of full length
C18_Witness ==
    /\ ret.op = "__init__"
    /\ ~Malformed(init_args)
    /\ Len(init_args.initial.pos) = MaxFluents
    /\ Len(init_args.initial.neg) = MaxFluents
    /\ initial_state_TF[1] = "T"
    /\ initial_state_TF[Len(state_map)] = "F"

\* C14: h_1 returns 1 on every state reachable from the initial state,
\* whatever the state and whatever the goal.
C14_H1Constant ==
    ret.op = "h_1" => ret.val = 1

\* h_1 asked on a reachable state that satisfies the goal
C14_Witness ==
    /\ ret.op = "h_1"
    /\ ret.state # initial_state_TF
    /\ goal_test(ret.state)

\* an action read as its schema instance: name, arguments and the four
\* fluent sets
Schema(a) ==
    [name |-> a.name, args |-> a.args,
     pre_pos |-> Range(a.precond_pos), pre_neg |-> Range(a.precond_neg),
     add |-> Range(a.effect_add), del |-> Range(a.effect_rem)]

LoadSchemas ==
    {[name |-> "Load", args |-> <<c, p, a>>,
      pre_pos |-> {At(p, a), At(c, a)}, pre_neg |-> {},
      add |-> {In(c, p)}, del |-> {At(c, a)}] :
        c \in Range(cargos), p \in Range(planes), a \in Range(airports)}

UnloadSchemas ==
    {[name |-> "Unload", args |-> <<c, p, a>>,
      pre_pos |-> {At(p, a), In(c, p)}, pre_neg |-> {},
      add |-> {At(c, a)}, del |-> {In(c, p)}] :
        c \in Range(cargos), p \in Range(planes), a \in Range(airports)}

FlySchemas ==
    {[name |-> "Fly", args |-> <<p, ft[1], ft[2]>>,
      pre_pos |-> {At(p, ft[1])}, pre_neg |-> {},
      add |-> {At(p, ft[2])}, del |-> {At(p, ft[1])}] :
        p \in Range(planes),
        ft \in {x \in Range(airports) \X Range(airports) : x[1] # x[2]}}

\* C15: the grounded list holds exactly the instances of the three schemas
\* over the scenario's objects: a Load and an Unload per (cargo, plane,
\* airport) and a Fly per plane and ordered pair of distinct airports, each
\* with the schema's positive preconditions, add and delete sets, each once
\* when the object names are distinct; no action has a negative precondition
\* and no Fly has from = to.
C15_SchemaInstantiation ==
    ret.op = "get_actions" =>
        /\ {Schema(actions_list[i]) : i \in 1..Len(actions_list)} =
               LoadSchemas \cup UnloadSchemas \cup FlySchemas
        /\ (NoDuplicates(cargos) /\ NoDuplicates(planes) /\ NoDuplicates(airports))
               => NoDuplicates(actions_list)
        /\ \A i \in 1..Len(actions_list) :
              /\ actions_list[i].precond_neg = <<>>
              /\ actions_list[i].name = "Fly" =>
                    actions_list[i].args[2] # actions_list[i].args[3]

\* the grounder ran on distinct names, the longest airport list, and produced
\* all three kinds of action
C15_Witness ==
    /\ ret.op = "get_actions"
    /\ NoDuplicates(cargos) /\ NoDuplicates(planes) /\ NoDuplicates(airports)
    /\ Len(airports) = MaxAirports
    /\ \A n \in {"Load", "Unload", "Fly"} : CountNamed(actions_list, n) > 0

\* C16: when result(s, a) fails because a is not enabled in s, the error
\* names the attempted action (name and arguments) and lists every action
\* enabled in s, and the caller gets no successor state.
C16_WrongActionReport ==
    (ret.op = "result" /\ ret.raised) =>
        LET pos == Range(decode_state(ret.state, state_map).pos)
            enabled == {a \in Range(actions_list) :
                          /\ Range(a.precond_pos) \subseteq pos
                          /\ Range(a.precond_neg) \cap pos = {}}
        IN  /\ ret.action \notin enabled
            /\ ret.val.action = <<ret.action.name, ret.action.args>>
            /\ {<<ret.val.allowed[i][1], ret.val.allowed[i][2]>> :
                    i \in 1..Len(ret.val.allowed)}
                 = {<<a.name, a.args>> : a \in enabled}
            /\ ret.val \notin [1..Len(state_map) -> {"T", "F"}]
            /\ state = ret.state

\* a failed result() in a state that has at least two enabled actions
C16_Witness ==
    /\ ret.op = "result"
    /\ ret.raised
    /\ Len(ret.val.allowed) >= 2
    /\ ret.state # initial_state_TF

\* C17: no call of actions(), result() (successful or failing), goal_test()
\* or a heuristic changes the vocabulary, the grounded action list or the
\* goal (nor any other field fixed at construction); result() gets the
\* caller's state as it is, and a failing result() leaves the caller with it.
C17_ScenarioImmutable ==
    [][/\ scenario_vars' = scenario_vars
       /\ ret'.op = "result" => /\ ret'.state = state
                                /\ ret'.raised => state' = state]_vars

\* after a failing result() and cached heuristic calls the scenario is still
\* the one constructed
C17_Witness ==
    /\ ret.op = "result"
    /\ ret.raised
    /\ Len(cache_ip) = MaxCache
    /\ state # initial_state_TF
    /\ state_map = initial_state_map(init_args.initial)
    /\ goal = init_args.goal
    /\ actions_list = get_actions

\* C19: in every state reachable from the initial state of scenario P1 each
\* plane is At exactly one airport, and each cargo is either At exactly one
\* airport and In no plane, or In exactly one plane and At no airport.
C19_DomainInvariant ==
    init_args = air_cargo_p1 =>
        LET pos == Range(decode_state(state, state_map).pos)
        IN  /\ \A p \in Range(planes) :
                  Cardinality({a \in Range(airports) : At(p, a) \in pos}) = 1
            /\ \A c \in Range(cargos) :
                  LET at == {a \in Range(airports) : At(c, a) \in pos}
                      in == {p \in Range(planes) : In(c, p) \in pos}
                  IN  \/ Cardinality(at) = 1 /\ in = {}
                      \/ Cardinality(in) = 1 /\ at = {}

\* scenario P1 with both cargos aboard planes that have left their airports
C19_Witness ==
    /\ init_args = air_cargo_p1
    /\ ret.op = "result"
    /\ ~ret.raised
    /\ LET pos == Range(decode_state(state, state_map).pos)
       IN  /\ \A c \in Range(cargos) : \E p \in Range(planes) : In(c, p) \in pos
           /\ At("P1", "JFK") \in pos
           /\ At("P2", "SFO") \in pos

\* C20: on a scenario whose goal fluents all belong to the vocabulary,
\* h_ignore_preconditions(s) is 0 exactly when goal_test(s) is true.
C20_ZeroIffGoal ==
    (ret.op = "h_ignore_preconditions" /\ Range(goal) \subseteq Vocabulary) =>
        ((ret.val = 0) <=> goal_test(ret.state))

\* the heuristic answered 0 on a goal state in which fluents outside the goal
\* hold as well
C20_Witness ==
    /\ ret.op = "h_ignore_preconditions"
    /\ Range(goal) \subseteq Vocabulary
    /\ ret.val = 0
    /\ goal_test(ret.state)
    /\ Cardinality(Range(decode_state(ret.state, state_map).pos)) > Len(goal)

\* C21: for a reachable state s and an action a of actions(s),
\* h_ignore_preconditions(s) - h_ignore_preconditions(result(s, a)) <= 1:
\* one action satisfies at most one more goal fluent.
C21_OneGoalPerAction ==
    (ret.op = "result" /\ ~ret.raised) =>
        h_ignore_preconditions(ret.state) - h_ignore_preconditions(ret.val) <= 1

\* a successful action that satisfied one more goal fluent
C21_Witness ==
    /\ ret.op = "result"
    /\ ~ret.raised
    /\ h_ignore_preconditions(ret.state) - h_ignore_preconditions(ret.val) = 1
    /\ h_ignore_preconditions(ret.val) = 1

\* C22: in scenario P1 no sequence of fewer than 6 applicable actions leads
\* from the initial state to a state where goal_test is true.
C22_NoShorterPlan ==
    (init_args = air_cargo_p1 /\ goal_test(state)) => depth >= Len(P1Plan)

\* goal_test answered true after exactly the six actions of the P1 plan
C22_Witness ==
    /\ init_args = air_cargo_p1
    /\ ret.op = "goal_test"
    /\ ret.val
    /\ depth = Len(P1Plan)
    /\ plan_pos = Len(P1Plan)

====
